---- MODULE Spec2Model ----
(***************************************************************************)
(* Model of the metadata extraction pipeline: the router's GET / handler,  *)
(* Manager.execute, Manager.downloadAndDecompress, MetaParser.parse/mask   *)
(* and DB.init/insertMetadata, with the MongoDB collection as the store.   *)
(***************************************************************************)
EXTENDS Integers, Sequences, FiniteSets, TLC

(* ---------------------------------------------------------------- bounds *)
\* Longest list of record files the feed archive expands to.
MaxFiles == 2

\* Calls of insertMetadata one direct client of the DB class makes.
MaxCalls == 2

\* HTTP triggers (pipeline runs / direct DB callers) that may overlap.
Runs == {"r1", "r2"}

\* GET / requests are named in the order they arrive: those before r.
Earlier(r) == IF r = "r2" THEN {"r1"} ELSE {}

(* ------------------------------------------------------------- JS values *)
Num(n) == [t |-> "num", n |-> n]
NaN == [t |-> "NaN", n |-> 0]
Undef == [t |-> "undefined", n |-> 0]

\* Values found in a parsed document and in a masked record: a text node,
\* null, a Date with its time value (in days since the epoch), and the
\* Date whose time value is NaN.
Str(s) == [t |-> "str", s |-> s, n |-> 0]
JsNull == [t |-> "null", s |-> "", n |-> 0]
Date(time) == [t |-> "date", s |-> "", n |-> time]
InvalidDate == [t |-> "invalid-date", s |-> "", n |-> 0]

\* The properties of a record mask() has not returned.
NoFields ==
  [language |-> JsNull, title |-> JsNull, subjects |-> <<>>,
   authors |-> <<>>, rights |-> <<>>, publicationDate |-> JsNull,
   publisher |-> JsNull]

\* A MaskedMetadata value; Null is the JS null mask() returns.
Null == [nul |-> TRUE, id |-> Undef, v |-> "-"]
Rec(i, v) == [nul |-> FALSE, id |-> i, v |-> v]
\* No insertMetadata call made yet.
NoCall == [nul |-> FALSE, id |-> Undef, v |-> "-"]

\* The parser's parsedXml field: undefined until parse() assigns it.
NoDoc == [st |-> "undefined", about |-> "-", v |-> "-"]
NullDoc == [st |-> "null", about |-> "-", v |-> "-"]
Doc(about, v) == [st |-> "doc", about |-> about, v |-> v]

(* ------------------------------------------------------------ the inputs *)
\* Contents of a record file: well-formed RDF with an ebook node (about is
\* the rdf:about suffix after "ebooks/"), well-formed XML without an ebook
\* node, a whitespace-only file, or text that is not XML.
RdfFile(about, v) == [ext |-> "rdf", xml |-> "ok", about |-> about, v |-> v]
NoEbookFile == [ext |-> "rdf", xml |-> "noebook", about |-> "-", v |-> "-"]
EmptyFile == [ext |-> "rdf", xml |-> "empty", about |-> "-", v |-> "-"]
BadFile == [ext |-> "rdf", xml |-> "malformed", about |-> "-", v |-> "-"]
TarFile == [ext |-> "tar", xml |-> "-", about |-> "-", v |-> "-"]

Files ==
  {RdfFile("1", "a"), RdfFile("1", "b"), RdfFile("10", "a"), RdfFile("x", "a"),
   NoEbookFile, EmptyFile, BadFile}

RECURSIVE SeqsUpTo(_, _)
SeqsUpTo(S, n) ==
  IF n = 0 THEN {<<>>}
  ELSE LET shorter == SeqsUpTo(S, n - 1)
       IN shorter \cup {Append(s, x) : s \in {q \in shorter : Len(q) = n - 1}, x \in S}

Feeds == SeqsUpTo(Files, MaxFiles)

\* Record files handed to a parser directly: those above and one whose
\* entry has subject and creator nodes without text and no issued date.
ParserFiles == Files \cup {RdfFile("1", "c")}

\* What the collection holds when the server starts: nothing, or a record
\* an earlier process stored.
Stores == {<<>>, <<[nul |-> FALSE, id |-> Num(1), v |-> "a"]>>}

\* Session ids uuid.v1 hands out: the n-th call returns an id no earlier
\* call returned.
SessionIds == 1..Cardinality(Runs)

\* guid() returning one and the same id on every call.
GuidFixed(n) == 1

\* guid(): the id of the n-th call.
Guid(n) == n

\* path.join(tempPath, session + '.tar.zip') and path.join(tempPath, session).
ZipFilePath(s) == <<"tempPath", s, ".tar.zip">>
UnzipFolderPath(s) == <<"tempPath", s>>

VARIABLES
  alive,      \* the node process is running
  feedUrlOk,  \* http.get accepts the configured feedUrl
  feed,       \* record files the remote archive expands to
  dbInit,     \* DB.init: "connecting", "ready" or "failed"
  ready,      \* DB._priv.ready
  store,      \* the collection: documents in natural order
  pc,         \* per run: position in the route handler / execute
  fetch,      \* per run: position in downloadAndDecompress's callbacks
  promise,    \* per run: the promise downloadAndDecompress returned
  fileList,   \* per run: result of recursive()
  idx,        \* per run: loop position in fileList
  parsedXml,  \* per run: parsedXml of the current file's MetaParser
  cur,        \* per run: argument of the latest insertMetadata call
  masked,     \* per run: the properties of the record mask() returned last
  matched,    \* per run: position the update's query matched, 0 if none
  result,     \* per run: how execute settled
  http,       \* per run: status of the response sent, 0 if none
  body,       \* per run: property names of the JSON body sent
  log,        \* per run: warnings and errors handed to the debug sink
  raised,     \* per run: the error execute's catch block caught, "-" if none
  session,    \* per run: the session id of execute, 0 before it starts
  guids,      \* calls of guid() so far
  zipFile,    \* per session id: the archive file at zipFilePath
  unzipDir,   \* per session id: entries under unzipFolderPath
  done,       \* per run: updates of this run the database has applied
  base,       \* per run: the store when the run started
  foreign,    \* per run: another actor wrote to the store since it started
  parsed,     \* per run: files handed to MetaParser.parse, in order
  wroteTo,    \* per session id: runs that wrote under its paths
  mode,       \* image uploader: process.env.ENV, "dev" or "serverless"
  main,       \* image uploader: position of bin/www and of the init chain
  settled,    \* image uploader: how the Server.init calls so far ended
  connect,    \* image uploader: position of the DB.init in progress
  dbReady,    \* image uploader: DB._priv.ready
  indexed,    \* image uploader: a createIndex on the collection succeeded
  mgrReady,   \* image uploader: Manager._priv.ready
  srvReady,   \* image uploader: Server._priv.ready
  listening,  \* image uploader: server.listen was called
  api,        \* image uploader: the latest direct call and how it ended
  req,        \* image uploader: the latest request and its answer
  users,      \* image uploader: per username, the user document
  bucket,     \* image uploader: keys of the objects in the S3 bucket
  uuids,      \* image uploader: calls of uuid() so far
  call,       \* image uploader: the Manager operation in progress
  up,         \* image uploader: the two S3 uploads of the latest upload call
  out,        \* image uploader: the latest Manager operation that ended
  calls,      \* image uploader: Manager operations called so far
  touched,    \* image uploader: what the latest operation has accessed
  streams     \* image uploader: read streams opened, as <<username, key>>

vars ==
  <<alive, feedUrlOk, feed, dbInit, ready, store, pc, fetch, promise, fileList,
    idx, parsedXml, cur, masked, matched, result, http, body, log, raised, session,
    guids,
    zipFile, unzipDir, done, base, foreign, parsed, wroteTo, mode, main,
    settled, connect, dbReady, indexed, mgrReady, srvReady, listening, api,
    req, users, bucket, uuids, call, up, out, calls, touched, streams>>

envVars == <<feedUrlOk, feed>>
mgrVars == <<users, bucket, uuids, call, up, out, calls, touched, streams>>
srvVars ==
  <<mode, main, settled, connect, dbReady, indexed, mgrReady, srvReady,
    listening, api, req>>
dbVars == <<dbInit, ready>>
fetchVars == <<fetch, promise>>
loopVars == <<fileList, idx, parsedXml>>
updVars == <<cur, masked, matched>>
outVars == <<pc, result, http, body, log, raised>>
diskVars == <<session, guids, zipFile, unzipDir, wroteTo>>
ghostVars == <<done, base, foreign, parsed>>

Pending == [st |-> "pending", n |-> 0, err |-> "-"]
Ok(n) == [st |-> "ok", n |-> n, err |-> "-"]
Rejected(e) == [st |-> "rejected", n |-> 0, err |-> e]

\* Nothing called directly yet, and no request handled yet.
NoApi == [op |-> "-", out |-> "-"]
NoReq ==
  [path |-> "-", token |-> "-", body |-> "-", status |-> 0, reached |-> FALSE]

\* The image uploader once bin/www has constructed its Server: the Server,
\* Manager and DB constructors set ready to false.
InitImage ==
  /\ main = "boot"
  /\ settled = <<>>
  /\ connect = "none"
  /\ dbReady = FALSE
  /\ indexed = FALSE
  /\ mgrReady = FALSE
  /\ srvReady = FALSE
  /\ listening = FALSE
  /\ api = NoApi
  /\ req = NoReq

\* Usernames, of which the collection holds the first two when the server
\* starts, each with an empty images list.
Usernames == {"u1", "u2", "u3"}
Registered == {"u1", "u2"}
NoUser == [exists |-> FALSE, images |-> <<>>]
NewUser == [exists |-> TRUE, images |-> <<>>]

\* No Manager operation in progress, no upload started, none ended.
Idle ==
  [name |-> "-", user |-> "-", stage |-> "-", fileId |-> 0, fileKey |-> 0,
   metadataKey |-> 0, inDb |-> FALSE, pwOk |-> FALSE]
NoUploads == [img |-> "none", meta |-> "none", fileKey |-> 0, metadataKey |-> 0]
NoOut == [name |-> "-", user |-> "-", res |-> "-", fileId |-> 0]

\* The image uploader's Manager once constructed, with the collection and
\* the bucket as the server finds them.
InitManager ==
  /\ users = [u \in Usernames |-> IF u \in Registered THEN NewUser ELSE NoUser]
  /\ bucket = {}
  /\ uuids = 0
  /\ call = Idle
  /\ up = NoUploads
  /\ out = NoOut
  /\ calls = 0
  /\ touched = {}
  /\ streams = {}

InitExtractor ==
  /\ alive = TRUE
  /\ feedUrlOk \in BOOLEAN
  /\ feed \in Feeds
  /\ dbInit = "connecting"
  /\ ready = FALSE
  /\ store \in Stores
  /\ pc = [r \in Runs |-> "idle"]
  /\ fetch = [r \in Runs |-> "none"]
  /\ promise = [r \in Runs |-> "none"]
  /\ fileList = [r \in Runs |-> <<>>]
  /\ idx = [r \in Runs |-> 0]
  /\ parsedXml = [r \in Runs |-> NoDoc]
  /\ cur = [r \in Runs |-> NoCall]
  /\ masked = [r \in Runs |-> NoFields]
  /\ matched = [r \in Runs |-> 0]
  /\ result = [r \in Runs |-> Pending]
  /\ http = [r \in Runs |-> 0]
  /\ body = [r \in Runs |-> {}]
  /\ log = [r \in Runs |-> <<>>]
  /\ raised = [r \in Runs |-> "-"]
  /\ session = [r \in Runs |-> 0]
  /\ guids = 0
  /\ zipFile = [s \in SessionIds |-> "absent"]
  /\ unzipDir = [s \in SessionIds |-> <<>>]
  /\ done = [r \in Runs |-> 0]
  /\ base = [r \in Runs |-> <<>>]
  /\ foreign = [r \in Runs |-> FALSE]
  /\ parsed = [r \in Runs |-> <<>>]
  /\ wroteTo = [s \in SessionIds |-> {}]

Init == InitExtractor /\ InitImage /\ InitManager /\ mode = "dev"

(* ------------------------------------------------------- pure functions *)
\* A conversion that reads no text as a number.
ToNumberNaN(str) == NaN

\* Unary plus applied to the rdf:about value with 'ebooks/' removed.
ToNumber(str) ==
  CASE str = "1" -> Num(1)
    [] str = "2" -> Num(2)
    [] str = "10" -> Num(10)
    [] str = "" -> Num(0)
    [] OTHER -> NaN

\* MetaParser.parse: what parseStringPromise leaves in parsedXml.
ParseThrows(file) == file.xml = "malformed"
Parse(file) ==
  CASE file.xml = "empty" -> NullDoc
    [] file.xml = "noebook" -> Doc("-", file.v)
    [] OTHER -> Doc(file.about, file.v)

\* mask() testing parsedXml === null: an unset parsedXml gets past it.
MaskThrowsStrict(doc) ==
  doc.st = "undefined" \/ (doc.st = "doc" /\ doc.about = "-")

\* MetaParser.mask: null without a document, a TypeError when the document
\* has no rdf:about to call replace() on, else the masked record.
MaskThrows(doc) == doc.st = "doc" /\ doc.about = "-"
Mask(doc) ==
  IF doc.st # "doc" THEN Null ELSE Rec(ToNumber(doc.about), doc.v)

\* What the lodash paths of mask() find in the ebook node of a document
\* with content v: subjects holds, per dcterms:subject item, its
\* rdf:Description[0].rdf:value[0] or null; authors, per pgterms:agent of
\* the first creator, its pgterms:name[0] or null; issued is
\* dcterms:issued[0]._ or null.  Content "a" is the record of ebooks/10 the
\* parser's tests mask.
Content(v) ==
  CASE v = "a" ->
         [language |-> Str("en"),
          title |-> Str("The King James Version of the Bible"),
          subjects |-> <<Str("Bible"), Str("BS")>>,
          authors |-> <<>>,
          rights |-> <<Str("Public domain in the USA.")>>,
          issued |-> Str("1989-08-01"),
          publisher |-> Str("Project Gutenberg")]
    [] v = "b" ->
         [language |-> JsNull,
          title |-> Str("The Adventures of Tom Sawyer"),
          subjects |-> <<JsNull, Str("Fiction"), Str(""), Str("PS")>>,
          authors |-> <<Str("Twain, Mark"), JsNull, Str("Clemens, Samuel")>>,
          rights |-> <<>>,
          issued |-> Str("soon"),
          publisher |-> JsNull]
    [] v = "c" ->
         [language |-> Str("fr"),
          title |-> JsNull,
          subjects |-> <<JsNull, Str("")>>,
          authors |-> <<Str("")>>,
          rights |-> <<Str("Copyrighted."), Str("")>>,
          issued |-> JsNull,
          publisher |-> JsNull]
    [] OTHER ->
         [language |-> JsNull, title |-> JsNull, subjects |-> <<>>,
          authors |-> <<>>, rights |-> <<>>, issued |-> JsNull,
          publisher |-> JsNull]

\* JavaScript truthiness of such a value.
Truthy(x) == x.t # "null" /\ ~(x.t = "str" /\ x.s = "")

\* A filter that keeps every entry.
FilterNothing(entries) == entries

\* Array.prototype.filter with the identity predicate.
FilterTruthy(entries) == SelectSeq(entries, Truthy)

\* Date.parse: the time value of a text in a date format, else NaN.
DateParse(text) ==
  CASE text = "1989-08-01" -> Num(7152)
    [] OTHER -> NaN

\* A conversion that gives null for a text Date.parse cannot read.
NewDateOrNull(text) ==
  LET time == DateParse(text)
  IN IF time.t = "num" THEN Date(time.n) ELSE JsNull

\* new Date(Date.parse(text)).
NewDate(text) ==
  LET time == DateParse(text)
  IN IF time.t = "num" THEN Date(time.n) ELSE InvalidDate

\* MetaParser.mask: the properties, other than id, of the record returned.
MaskFields(doc) ==
  IF doc.st # "doc" THEN NoFields
  ELSE LET ebook == Content(doc.v)
       IN [language |-> ebook.language,
           title |-> ebook.title,
           subjects |-> FilterTruthy(ebook.subjects),
           authors |-> FilterTruthy(ebook.authors),
           rights |-> ebook.rights,
           publicationDate |->
             IF ebook.issued # JsNull THEN NewDate(ebook.issued.s)
             ELSE JsNull,
           publisher |-> ebook.publisher]

\* A mask() that warns whatever the parser holds.
MaskLogAlways(doc, sink) == Append(sink, "PARSED_XML_NOT_FOUND")

\* MetaParser.mask's use of the debug sink: one warning when there is no
\* parsed document, nothing otherwise.
MaskLog(doc, sink) ==
  IF doc.st # "doc" THEN Append(sink, "PARSED_XML_NOT_FOUND") ELSE sink

\* A store that always calls itself ready.
IsReadyAlways == TRUE

\* DB.isReady.
IsReady == ready

\* insertMetadata without its assertion on metadata.id.
InsertCheckNoAssert(metadata) ==
  IF IsReady
    THEN IF metadata.nul THEN "TypeError" ELSE "update"
    ELSE "NOT_INITIALIZED"

\* DB.insertMetadata up to the await: the error it throws, or "update" when
\* it issues collection.update.
InsertCheck(metadata) ==
  IF IsReady
    THEN IF metadata.nul THEN "TypeError"
         ELSE IF metadata.id.t = "undefined" THEN "AssertionError"
         ELSE "update"
    ELSE "NOT_INITIALIZED"

\* The update's query {id: metadata.id}: first matching document, 0 if none.
FirstMatch(coll, id) ==
  IF \E i \in 1..Len(coll) : coll[i].id = id
    THEN CHOOSE i \in 1..Len(coll) :
           /\ coll[i].id = id
           /\ \A j \in 1..(i - 1) : coll[j].id # id
    ELSE 0

\* A plain insert: the document is added whatever the query matched.
ApplyInsert(coll, m, metadata) == Append(coll, metadata)

\* An update that sets the given fields on the matched document and keeps
\* the fields the record does not name.
ApplyUpdateMerge(coll, m, metadata) ==
  IF m = 0 THEN Append(coll, metadata)
  ELSE [coll EXCEPT ![m] =
          Rec(metadata.id, IF metadata.v = "-" THEN coll[m].v ELSE metadata.v)]

\* The update's write {upsert: true}: replace the matched document whole,
\* insert when the query matched nothing.
ApplyUpdate(coll, m, metadata) ==
  IF m = 0 THEN Append(coll, metadata)
  ELSE [coll EXCEPT ![m] = metadata]

\* createIndexes: ensureIndex({id: 1}) is given no unique option.
IdIndexUnique == FALSE

\* A listing that ignores nothing.
RecursiveAll(dir, ignoreExt) == dir

\* A listing that stops after the first file it reports.
RecursiveFirst(dir, ignoreExt) ==
  LET keep == SelectSeq(dir, LAMBDA f : f.ext # ignoreExt)
  IN IF keep = <<>> THEN <<>> ELSE <<Head(keep)>>

\* recursive(unzipFolderPath, ['*.tar']).
RECURSIVE Recursive(_, _)
Recursive(dir, ignoreExt) ==
  IF dir = <<>> THEN <<>>
  ELSE IF Head(dir).ext = ignoreExt THEN Recursive(Tail(dir), ignoreExt)
  ELSE <<Head(dir)>> \o Recursive(Tail(dir), ignoreExt)

\* A stage 2 that leaves the record files in place of the inner archive.
ExpandedInPlace(archive) == archive

\* The expansion directory after both stages: the inner archive stage 1
\* wrote, then the record files stage 2 extracted from it.
Expanded(archive) == <<TarFile>> \o archive

\* res.json(value): JSON.stringify keeps the own enumerable properties.  The
\* message of an Error is an own property that is not enumerable; an
\* AssertionError, a system error of fs and a MongoError carry enumerable
\* fields of their own, none of them named message.
Payload == {"ok", "n"}
ErrorJson(e) ==
  CASE e = "AssertionError" ->
         {"generatedMessage", "code", "actual", "expected", "operator"}
    [] e = "FsError" -> {"errno", "code", "syscall", "path"}
    [] e = "MongoError" -> {"name"}
    [] OTHER -> {}

(* ------------------------------------------------------------ DB.init() *)
\* MongoClient.connect succeeded and createIndexes completed.
DbInitOk ==
  /\ alive /\ dbInit = "connecting"
  /\ dbInit' = "ready"
  /\ ready' = TRUE
  /\ UNCHANGED <<alive, envVars, store, fetchVars, loopVars, updVars, outVars,
                 ghostVars, diskVars, srvVars, mgrVars>>

\* MongoClient.connect failed, or createIndexes threw: ready stays false.
\* Nobody handles the rejection: the runtime warns or ends the process.
DbInitFail ==
  /\ alive /\ dbInit = "connecting"
  /\ dbInit' = "failed"
  /\ alive' \in BOOLEAN
  /\ UNCHANGED <<envVars, ready, store, fetchVars, loopVars, updVars, outVars,
                 ghostVars, diskVars, srvVars, mgrVars>>

(* ------------------------------------------- router and Manager.execute *)
\* The debug sink of run r when its catch block is entered: where the
\* error comes out of insertMetadata(...mask()), mask() has run first and
\* has warned if it found no parsed document.
SinkAtCatch(r) ==
  IF pc[r] = "mask" THEN MaskLog(parsedXml[r], log[r]) ELSE log[r]

\* A catch block that undoes the run's writes before it rethrows.
ThrowRollback(r, e) ==
  /\ pc' = [pc EXCEPT ![r] = "done"]
  /\ result' = [result EXCEPT ![r] = Rejected(e)]
  /\ http' = [http EXCEPT ![r] = 500]
  /\ body' = [body EXCEPT ![r] = ErrorJson(e)]
  /\ log' = [log EXCEPT ![r] = Append(SinkAtCatch(r), e)]
  /\ raised' = [raised EXCEPT ![r] = e]
  /\ store' = base[r]

\* A catch block that rethrows a new error made from the one it caught.
ThrowWrapped(r, e) ==
  /\ pc' = [pc EXCEPT ![r] = "done"]
  /\ result' = [result EXCEPT ![r] = Rejected("Error")]
  /\ http' = [http EXCEPT ![r] = 500]
  /\ body' = [body EXCEPT ![r] = ErrorJson("Error")]
  /\ log' = [log EXCEPT ![r] = Append(SinkAtCatch(r), e)]
  /\ raised' = [raised EXCEPT ![r] = e]
  /\ store' = store

\* The catch block of execute logs and rethrows, and the route handler
\* answers 500; neither touches the collection.
Throw(r, e) ==
  /\ pc' = [pc EXCEPT ![r] = "done"]
  /\ result' = [result EXCEPT ![r] = Rejected(e)]
  /\ http' = [http EXCEPT ![r] = 500]
  /\ body' = [body EXCEPT ![r] = ErrorJson(e)]
  /\ log' = [log EXCEPT ![r] = Append(SinkAtCatch(r), e)]
  /\ raised' = [raised EXCEPT ![r] = e]
  /\ store' = store

\* execute reporting the number of stored records instead.
ReturnStored(r, n) ==
  /\ pc' = [pc EXCEPT ![r] = "done"]
  /\ result' = [result EXCEPT ![r] = Ok(Len(store))]
  /\ http' = [http EXCEPT ![r] = 200]
  /\ body' = [body EXCEPT ![r] = Payload]
  /\ log' = log
  /\ raised' = raised

\* execute returns {ok: true, n}, the route handler answers with it.
Return(r, n) ==
  /\ pc' = [pc EXCEPT ![r] = "done"]
  /\ result' = [result EXCEPT ![r] = Ok(n)]
  /\ http' = [http EXCEPT ![r] = 200]
  /\ body' = [body EXCEPT ![r] = Payload]
  /\ log' = log
  /\ raised' = raised

\* An exception nobody catches, or an 'error' event nobody listens to,
\* ends the process; stage is where run r's fetch was hit.
Crash(r, stage) ==
  /\ alive' = FALSE
  /\ fetch' = [fetch EXCEPT ![r] = stage]
  /\ UNCHANGED <<envVars, dbVars, store, promise, loopVars, updVars, outVars,
                 ghostVars, diskVars, srvVars, mgrVars>>

\* Run r's fetch stops at stage with its promise left as it is.
Stall(r, stage) ==
  /\ fetch' = [fetch EXCEPT ![r] = stage]
  /\ UNCHANGED <<alive, envVars, dbVars, store, promise, loopVars, updVars,
                 outVars, ghostVars, diskVars, srvVars, mgrVars>>

\* GET / arrives: execute draws its session id, createWriteStream opens
\* the archive file at the session's zipFilePath, and http.get is called,
\* which throws at once on a feedUrl it cannot use.
Trigger(r) ==
  /\ alive /\ pc[r] = "idle"
  /\ \A q \in Earlier(r) : pc[q] # "idle"
  /\ base' = [base EXCEPT ![r] = store]
  /\ guids' = guids + 1
  /\ LET s == Guid(guids + 1)
     IN /\ session' = [session EXCEPT ![r] = s]
        /\ zipFile' = [zipFile EXCEPT ![s] = "open"]
        /\ wroteTo' = [wroteTo EXCEPT ![s] = @ \cup {r}]
  /\ IF feedUrlOk
       THEN /\ pc' = [pc EXCEPT ![r] = "awaitFetch"]
            /\ fetch' = [fetch EXCEPT ![r] = "requesting"]
            /\ promise' = [promise EXCEPT ![r] = "pending"]
            /\ UNCHANGED <<result, http, body, log, raised, store>>
       ELSE /\ Throw(r, "InvalidUrl")
            /\ fetch' = [fetch EXCEPT ![r] = "getThrew"]
            /\ promise' = [promise EXCEPT ![r] = "rejected"]
  /\ UNCHANGED <<alive, envVars, dbVars, loopVars, updVars, done, foreign,
                 parsed, unzipDir, srvVars, mgrVars>>

(* ------------------------------------------ Manager.downloadAndDecompress *)
\* The request fails before a response: 'error' on the ClientRequest, which
\* has no listener.
RequestError(r) ==
  /\ alive /\ fetch[r] = "requesting"
  /\ Crash(r, "requestFailed")

\* The http.get callback: the response is piped into the write stream.
Response(r) ==
  /\ alive /\ fetch[r] = "requesting"
  /\ fetch' = [fetch EXCEPT ![r] = "piping"]
  /\ UNCHANGED <<alive, envVars, dbVars, store, promise, loopVars, updVars,
                 outVars, ghostVars, diskVars, srvVars, mgrVars>>

\* The response breaks off mid-stream: the write stream is never ended, so
\* 'finish' never fires and the promise stays pending; where the runtime
\* raises 'error' on the response, nobody listens.
DownloadAbort(r) ==
  /\ alive /\ fetch[r] = "piping"
  /\ \/ Stall(r, "downloadFailed")
     \/ Crash(r, "downloadFailed")

\* Writing the archive to disk fails: 'error' on the write stream, which has
\* no listener.
DiskWriteError(r) ==
  /\ alive /\ fetch[r] = "piping"
  /\ Crash(r, "writeFailed")

\* The write stream emits 'finish': the whole archive is written, and
\* file.close is called.
FileFinish(r) ==
  /\ alive /\ fetch[r] = "piping"
  /\ fetch' = [fetch EXCEPT ![r] = "closing"]
  /\ zipFile' = [zipFile EXCEPT ![session[r]] = "finished"]
  /\ UNCHANGED <<alive, envVars, dbVars, store, promise, loopVars, updVars,
                 outVars, ghostVars, session, guids, unzipDir, wroteTo,
                 srvVars, mgrVars>>

\* The decompression started from the response callback, next to pipe().
CloseCallbackEarly(r) == fetch[r] \in {"piping", "closing"}

\* The callback of file.close is registered in the 'finish' listener: it
\* runs once the stream has finished and the file is closed.
CloseCallbackDue(r) == fetch[r] = "closing"

\* The close callback: the archive file is closed, extractAllTo runs
\* synchronously and leaves rdf-files.tar in the expansion directory, then
\* tar.extract is started on it.
CloseCallback(r) ==
  /\ alive /\ CloseCallbackDue(r)
  /\ fetch' = [fetch EXCEPT ![r] = "untarring"]
  /\ zipFile' = [zipFile EXCEPT ![session[r]] = "closed"]
  /\ unzipDir' = [unzipDir EXCEPT ![session[r]] = <<TarFile>>]
  /\ wroteTo' = [wroteTo EXCEPT ![session[r]] = @ \cup {r}]
  /\ UNCHANGED <<alive, envVars, dbVars, store, promise, loopVars, updVars,
                 outVars, ghostVars, session, guids, srvVars, mgrVars>>

\* The close callback on a corrupt outer container: extractAllTo throws
\* inside the callback, outside the promise executor's try block.
ZipCorrupt(r) ==
  /\ alive /\ fetch[r] = "closing"
  /\ Crash(r, "zipFailed")

\* tar.extract fulfils with the record files extracted next to the inner
\* archive: its then-callback calls resolve().
TarDone(r) ==
  /\ alive /\ fetch[r] = "untarring"
  /\ fetch' = [fetch EXCEPT ![r] = "done"]
  /\ promise' = [promise EXCEPT ![r] = "resolved"]
  /\ unzipDir' = [unzipDir EXCEPT ![session[r]] = Expanded(feed)]
  /\ wroteTo' = [wroteTo EXCEPT ![session[r]] = @ \cup {r}]
  /\ UNCHANGED <<alive, envVars, dbVars, store, loopVars, updVars, outVars,
                 ghostVars, session, guids, zipFile, srvVars, mgrVars>>

\* tar.extract rejects: the chain has no rejection handler, so nothing
\* settles the returned promise; the runtime warns or ends the process.
TarFail(r) ==
  /\ alive /\ fetch[r] = "untarring"
  /\ \/ Stall(r, "tarFailed")
     \/ Crash(r, "tarFailed")

(* ----------------------------------------------- Manager.execute, resumed *)
\* downloadAndDecompress called without await.
FetchNotAwaited(r) == promise[r] \in {"pending", "resolved"}

\* await this.downloadAndDecompress(...) lets execute go on.
FetchAwaited(r) == promise[r] = "resolved"

\* The await on downloadAndDecompress resumes; recursive() starts listing
\* the expansion directory.
Discover(r) ==
  /\ alive /\ pc[r] = "awaitFetch" /\ FetchAwaited(r)
  /\ pc' = [pc EXCEPT ![r] = "discovering"]
  /\ UNCHANGED <<alive, envVars, dbVars, store, fetchVars, loopVars, updVars,
                 result, http, body, log, raised, ghostVars, diskVars, srvVars, mgrVars>>

\* recursive() fulfils with the file list; an empty list skips the loop.
DiscoverDone(r) ==
  /\ alive /\ pc[r] = "discovering"
  /\ LET list == Recursive(unzipDir[session[r]], "tar")
     IN /\ fileList' = [fileList EXCEPT ![r] = list]
        /\ IF list = <<>>
             THEN /\ Return(r, Len(list))
                  /\ UNCHANGED idx
             ELSE /\ pc' = [pc EXCEPT ![r] = "parse"]
                  /\ idx' = [idx EXCEPT ![r] = 1]
                  /\ UNCHANGED <<result, http, body, log, raised>>
  /\ UNCHANGED <<alive, envVars, dbVars, store, fetchVars, parsedXml, updVars,
                 ghostVars, diskVars, srvVars, mgrVars>>

\* recursive() rejects (the directory cannot be read).
DiscoverFail(r) ==
  /\ alive /\ pc[r] = "discovering"
  /\ Throw(r, "FsError")
  /\ UNCHANGED <<alive, envVars, dbVars, fetchVars, loopVars, updVars,
                 ghostVars, diskVars, srvVars, mgrVars>>

\* new MetaParser({rdfPath: file}).parse() for the current file.
ParseFile(r) ==
  /\ alive /\ pc[r] = "parse"
  /\ LET file == fileList[r][idx[r]]
     IN /\ parsed' = [parsed EXCEPT ![r] = Append(@, file)]
        /\ IF ParseThrows(file)
             THEN /\ Throw(r, "ParseError")
                  /\ UNCHANGED parsedXml
             ELSE /\ parsedXml' = [parsedXml EXCEPT ![r] = Parse(file)]
                  /\ pc' = [pc EXCEPT ![r] = "mask"]
                  /\ UNCHANGED <<result, http, body, log, raised, store>>
  /\ UNCHANGED <<alive, envVars, dbVars, fetchVars, fileList, idx, updVars,
                 done, base, foreign, diskVars, srvVars, mgrVars>>

\* parse() has fulfilled: mask() and the synchronous part of
\* insertMetadata(mask()) run in the same turn.
MaskInsert(r) ==
  /\ alive /\ pc[r] = "mask"
  /\ IF MaskThrows(parsedXml[r])
       THEN /\ Throw(r, "TypeError")
            /\ UNCHANGED <<cur, masked>>
       ELSE LET metadata == Mask(parsedXml[r])
                outcome == InsertCheck(metadata)
            IN /\ cur' = [cur EXCEPT ![r] = metadata]
               /\ masked' = [masked EXCEPT ![r] = MaskFields(parsedXml[r])]
               /\ IF outcome = "update"
                    THEN /\ pc' = [pc EXCEPT ![r] = "update"]
                         /\ UNCHANGED <<result, http, body, log, raised, store>>
                    ELSE Throw(r, outcome)
  /\ UNCHANGED <<alive, envVars, dbVars, fetchVars, loopVars, matched,
                 ghostVars, diskVars, srvVars, mgrVars>>

(* ------------------------------------- collection.update at the database *)
\* The server evaluates the update's query.
UpsertMatch(r) ==
  /\ alive /\ pc[r] = "update"
  /\ matched' = [matched EXCEPT ![r] = FirstMatch(store, cur[r].id)]
  /\ pc' = [pc EXCEPT ![r] = "write"]
  /\ UNCHANGED <<alive, envVars, dbVars, store, fetchVars, loopVars, cur,
                 masked, result, http, body, log, raised, ghostVars, diskVars, srvVars, mgrVars>>

\* The server writes: the replacement, or the insert when nothing matched.
\* Only a unique index makes an insert that meets a document another
\* client wrote meanwhile fail with a duplicate key, and the server then
\* runs the operation again as an update.
UpsertWrite(r) ==
  /\ alive /\ pc[r] = "write"
  /\ store' =
       IF IdIndexUnique /\ matched[r] = 0
         THEN ApplyUpdate(store, FirstMatch(store, cur[r].id), cur[r])
         ELSE ApplyUpdate(store, matched[r], cur[r])
  /\ pc' = [pc EXCEPT ![r] = "ack"]
  /\ done' = [done EXCEPT ![r] = done[r] + 1]
  /\ foreign' = [q \in Runs |->
                   IF q # r /\ pc[q] # "idle" THEN TRUE ELSE foreign[q]]
  /\ UNCHANGED <<alive, envVars, dbVars, fetchVars, loopVars, updVars, result,
                 http, body, log, raised, base, parsed, diskVars, srvVars, mgrVars>>

\* The update fails (connection lost, server error): the await throws.
UpsertError(r) ==
  /\ alive /\ pc[r] = "update"
  /\ Throw(r, "MongoError")
  /\ UNCHANGED <<alive, envVars, dbVars, fetchVars, loopVars, updVars,
                 ghostVars, diskVars, srvVars, mgrVars>>

\* insertMetadata called without await.
InsertNotAwaited(r) == pc[r] \in {"update", "write", "ack"}

\* await this._priv.db.insertMetadata(...) lets the loop go on.
InsertAwaited(r) == pc[r] = "ack"

\* The await on insertMetadata resumes: next file, or the loop ends and
\* execute returns.
LoopNext(r) ==
  /\ alive /\ InsertAwaited(r)
  /\ IF idx[r] < Len(fileList[r])
       THEN /\ idx' = [idx EXCEPT ![r] = idx[r] + 1]
            /\ pc' = [pc EXCEPT ![r] = "parse"]
            /\ UNCHANGED <<result, http, body, log, raised>>
       ELSE /\ Return(r, Len(fileList[r]))
            /\ UNCHANGED idx
  /\ UNCHANGED <<alive, envVars, dbVars, store, fetchVars, fileList, parsedXml,
                 updVars, ghostVars, diskVars, srvVars, mgrVars>>

(* -------------------------------------- a direct client of the DB class *)
\* Records a client may hand over; "-" as v is a record without that field.
Metadata ==
  {Rec(Num(1), "a"), Rec(Num(1), "-"), Rec(Num(2), "a"), Rec(NaN, "a"),
   Rec(Undef, "a")}

\* db.insertMetadata(metadata) called by client c: it throws, or issues the
\* update.
CallInsert(c, metadata) ==
  /\ alive /\ pc[c] = "idle" /\ idx[c] < MaxCalls
  /\ idx' = [idx EXCEPT ![c] = idx[c] + 1]
  /\ cur' = [cur EXCEPT ![c] = metadata]
  /\ base' = [base EXCEPT ![c] = store]
  /\ foreign' = [foreign EXCEPT ![c] = FALSE]
  /\ LET outcome == InsertCheck(metadata)
     IN IF outcome = "update"
          THEN /\ pc' = [pc EXCEPT ![c] = "update"]
               /\ result' = [result EXCEPT ![c] = Pending]
          ELSE /\ result' = [result EXCEPT ![c] = Rejected(outcome)]
               /\ UNCHANGED pc
  /\ UNCHANGED <<alive, envVars, dbVars, store, fetchVars, fileList, parsedXml,
                 masked, matched, http, body, log, raised, done, parsed,
                 diskVars, srvVars, mgrVars>>

\* The await on collection.update resumes and insertMetadata fulfils.
CallReturn(c) ==
  /\ alive /\ pc[c] = "ack"
  /\ pc' = [pc EXCEPT ![c] = "idle"]
  /\ result' = [result EXCEPT ![c] = Ok(0)]
  /\ UNCHANGED <<alive, envVars, dbVars, store, fetchVars, loopVars, updVars,
                 http, body, log, raised, ghostVars, diskVars, srvVars, mgrVars>>

(* ------------------------------- a direct client of the MetaParser class *)
\* The client that holds a parser, and the calls it makes at most: one more
\* than the bound, so that mask() can follow a mask() that followed a
\* parse().
ParserClients == {"r1"}
MaxParserCalls == MaxCalls + 1

\* parser.parse() called by client c on file: parsedXml is assigned only
\* when parseStringPromise fulfils.
ParserParse(c, file) ==
  /\ alive /\ idx[c] < MaxParserCalls
  /\ idx' = [idx EXCEPT ![c] = idx[c] + 1]
  /\ parsed' = [parsed EXCEPT ![c] = Append(@, file)]
  /\ IF ParseThrows(file)
       THEN /\ pc' = [pc EXCEPT ![c] = "parseThrew"]
            /\ result' = [result EXCEPT ![c] = Rejected("ParseError")]
            /\ UNCHANGED parsedXml
       ELSE /\ pc' = [pc EXCEPT ![c] = "parsed"]
            /\ result' = [result EXCEPT ![c] = Ok(0)]
            /\ parsedXml' = [parsedXml EXCEPT ![c] = Parse(file)]
  /\ UNCHANGED <<alive, envVars, dbVars, store, fetchVars, fileList, updVars,
                 http, body, log, raised, done, base, foreign, diskVars, srvVars, mgrVars>>

\* parser.mask() called by client c: it throws, or returns what cur keeps.
ParserMask(c) ==
  /\ alive /\ idx[c] < MaxParserCalls
  /\ idx' = [idx EXCEPT ![c] = idx[c] + 1]
  /\ IF MaskThrows(parsedXml[c])
       THEN /\ pc' = [pc EXCEPT ![c] = "maskThrew"]
            /\ result' = [result EXCEPT ![c] = Rejected("TypeError")]
            /\ UNCHANGED <<cur, masked, log>>
       ELSE /\ pc' = [pc EXCEPT ![c] = "masked"]
            /\ result' = [result EXCEPT ![c] = Ok(0)]
            /\ cur' = [cur EXCEPT ![c] = Mask(parsedXml[c])]
            /\ masked' = [masked EXCEPT ![c] = MaskFields(parsedXml[c])]
            /\ log' = [log EXCEPT ![c] = MaskLog(parsedXml[c], log[c])]
  /\ UNCHANGED <<alive, envVars, dbVars, store, fetchVars, fileList, parsedXml,
                 matched, http, body, raised, ghostVars, diskVars, srvVars, mgrVars>>

(* ------------------------------------------- the image uploader server *)
\* Values of process.env.ENV that bin/www tells apart.
Modes == {"dev", "serverless"}

\* Request paths, of which JWT_EXCLUDED names the first; what a request
\* carries as its token; and its body as express.json() finds it.
Paths == {"/login", "/images"}
JwtExcluded == {"/login"}
Tokens == {"none", "valid", "forged", "otherAlg", "expired"}
Bodies == {"ok", "malformed"}

\* What the router answers to the requests that reach it.
RouterStatuses == {200, 404}

\* Operations of the image uploader's DB.
DbOps == {"insertMetadata", "insertUser", "getUser", "addImageToUser"}

\* A middleware that lets every request through.
JwtPassesAll(path, token) == TRUE

\* jwtMiddleware({secret, algorithms: ['HS256']}).unless({path}): the
\* request goes on to the router.
JwtPasses(path, token) == path \in JwtExcluded \/ token = "valid"

\* The express app on one request: the body parsers come before the JWT
\* middleware, the router after it, and the error handler answers 401 to an
\* UnauthorizedError and the error's statusCode to any other error.
Handle(path, token, payload, routed) ==
  IF payload = "malformed"
    THEN [path |-> path, token |-> token, body |-> payload, status |-> 400,
          reached |-> FALSE]
  ELSE IF JwtPasses(path, token)
    THEN [path |-> path, token |-> token, body |-> payload, status |-> routed,
          reached |-> TRUE]
  ELSE [path |-> path, token |-> token, body |-> payload, status |-> 401,
        reached |-> FALSE]

\* A Server that calls itself ready whatever init did.
ServerIsReadyAlways == TRUE

\* Server.isReady and the image uploader's DB.isReady.
ServerIsReady == srvReady
ImageDbIsReady == dbReady

\* bin/www calls server.init(), at startup or, when serverless, in the
\* handler of each event: Manager.init calls DB.init, which calls
\* MongoClient.connect.
ServerInit ==
  /\ main \in (IF mode = "dev" THEN {"boot"} ELSE {"boot", "idle", "failed"})
  /\ Len(settled) < MaxCalls
  /\ main' = "awaitDb"
  /\ connect' = "connecting"
  /\ UNCHANGED <<mode, settled, dbReady, indexed, mgrReady, srvReady,
                 listening, api, req>>
  /\ UNCHANGED <<alive, envVars, dbVars, store, fetchVars, loopVars, updVars,
                 outVars, ghostVars, diskVars, mgrVars>>

\* The connect callback gets an error: DB.init rejects, and so do
\* Manager.init, Server.init and the caller in bin/www.
ConnectFail ==
  /\ connect = "connecting"
  /\ connect' = "rejected"
  /\ settled' = Append(settled, "rejected")
  /\ main' = "failed"
  /\ UNCHANGED <<mode, dbReady, indexed, mgrReady, srvReady, listening, api,
                 req>>
  /\ UNCHANGED <<alive, envVars, dbVars, store, fetchVars, loopVars, updVars,
                 outVars, ghostVars, diskVars, mgrVars>>

\* The connect callback gets a client: db and collection are set and
\* createIndexes is called.
ConnectOk ==
  /\ connect = "connecting"
  /\ connect' = "indexing"
  /\ UNCHANGED <<mode, main, settled, dbReady, indexed, mgrReady, srvReady,
                 listening, api, req>>
  /\ UNCHANGED <<alive, envVars, dbVars, store, fetchVars, loopVars, updVars,
                 outVars, ghostVars, diskVars, mgrVars>>

\* createIndexes throws: the catch block rejects and the callback goes on to
\* set ready and to call resolve, which a settled promise ignores.
IndexFail ==
  /\ connect = "indexing"
  /\ connect' = "rejected"
  /\ dbReady' = TRUE
  /\ settled' = Append(settled, "rejected")
  /\ main' = "failed"
  /\ UNCHANGED <<mode, indexed, mgrReady, srvReady, listening, api, req>>
  /\ UNCHANGED <<alive, envVars, dbVars, store, fetchVars, loopVars, updVars,
                 outVars, ghostVars, diskVars, mgrVars>>

\* createIndexes returns: the callback sets ready and resolves.
IndexOk ==
  /\ connect = "indexing"
  /\ connect' = "resolved"
  /\ dbReady' = TRUE
  /\ indexed' = TRUE
  /\ UNCHANGED <<mode, main, settled, mgrReady, srvReady, listening, api, req>>
  /\ UNCHANGED <<alive, envVars, dbVars, store, fetchVars, loopVars, updVars,
                 outVars, ghostVars, diskVars, mgrVars>>

\* Manager.init resumes after its await on DB.init.
ManagerInitDone ==
  /\ main = "awaitDb" /\ connect = "resolved"
  /\ mgrReady' = TRUE
  /\ main' = "awaitManager"
  /\ UNCHANGED <<mode, settled, connect, dbReady, indexed, srvReady,
                 listening, api, req>>
  /\ UNCHANGED <<alive, envVars, dbVars, store, fetchVars, loopVars, updVars,
                 outVars, ghostVars, diskVars, mgrVars>>

\* Server.init resumes after its await on Manager.init.
ServerInitDone ==
  /\ main = "awaitManager"
  /\ srvReady' = TRUE
  /\ settled' = Append(settled, "resolved")
  /\ main' = "awaitServer"
  /\ UNCHANGED <<mode, connect, dbReady, indexed, mgrReady, listening, api,
                 req>>
  /\ UNCHANGED <<alive, envVars, dbVars, store, fetchVars, loopVars, updVars,
                 outVars, ghostVars, diskVars, mgrVars>>

\* bin/www resumes after its await on server.init(): it calls start(), or
\* when serverless getExpressApp() to hand the event to the app.
MainResume ==
  /\ main = "awaitServer"
  /\ IF ServerIsReady
       THEN /\ main' = IF mode = "dev" THEN "up" ELSE "handling"
            /\ listening' = (listening \/ mode = "dev")
       ELSE /\ main' = "failed"
            /\ UNCHANGED listening
  /\ UNCHANGED <<mode, settled, connect, dbReady, indexed, mgrReady, srvReady,
                 api, req>>
  /\ UNCHANGED <<alive, envVars, dbVars, store, fetchVars, loopVars, updVars,
                 outVars, ghostVars, diskVars, mgrVars>>

\* A request comes to the express app, from the HTTP server that listens
\* or as the event the serverless handler was called with.
Request(path, token, payload, routed) ==
  /\ listening \/ main = "handling"
  /\ req' = Handle(path, token, payload, routed)
  /\ main' = IF main = "handling" THEN "idle" ELSE main
  /\ UNCHANGED <<mode, settled, connect, dbReady, indexed, mgrReady, srvReady,
                 listening, api>>
  /\ UNCHANGED <<alive, envVars, dbVars, store, fetchVars, loopVars, updVars,
                 outVars, ghostVars, diskVars, mgrVars>>

\* server.start() called by some other holder of the Server, at any time.
CallStart ==
  /\ api' = [op |-> "start",
             out |-> IF ServerIsReady THEN "returned" ELSE "threw"]
  /\ listening' = (listening \/ ServerIsReady)
  /\ UNCHANGED <<mode, main, settled, connect, dbReady, indexed, mgrReady,
                 srvReady, req>>
  /\ UNCHANGED <<alive, envVars, dbVars, store, fetchVars, loopVars, updVars,
                 outVars, ghostVars, diskVars, mgrVars>>

\* server.getExpressApp() called likewise.
CallGetExpressApp ==
  /\ api' = [op |-> "getExpressApp",
             out |-> IF ServerIsReady THEN "returned" ELSE "threw"]
  /\ UNCHANGED <<mode, main, settled, connect, dbReady, indexed, mgrReady,
                 srvReady, listening, req>>
  /\ UNCHANGED <<alive, envVars, dbVars, store, fetchVars, loopVars, updVars,
                 outVars, ghostVars, diskVars, mgrVars>>

\* An operation of the DB called: it throws NOT_INITIALIZED, or goes on to
\* the collection.
CallDbOp(op) ==
  /\ api' = [op |-> op, out |-> IF ImageDbIsReady THEN "issued" ELSE "threw"]
  /\ UNCHANGED <<mode, main, settled, connect, dbReady, indexed, mgrReady,
                 srvReady, listening, req>>
  /\ UNCHANGED <<alive, envVars, dbVars, store, fetchVars, loopVars, updVars,
                 outVars, ghostVars, diskVars, mgrVars>>

(* ------------------------------------------ the image uploader Manager *)
\* The other variables of the model, which the Manager leaves alone.
extractorVars ==
  <<envVars, dbVars, store, fetchVars, loopVars, updVars, outVars, ghostVars,
    diskVars>>

\* uuid(): the key of the n-th call.
Uuid(n) == n

\* File ids a caller may ask for: the keys uuid() can have handed out.
FileIds == 1..(2 * MaxCalls)

\* The operations that read or write the user document only.
UserOps == {"registerUser", "loginUser", "getUploadedImagesForUser"}

\* A Manager that calls itself ready whatever init did.
ManagerIsReadyAlways == TRUE

\* Manager.isReady.
ManagerIsReady == mgrReady

\* A check that finds every file id in every list.
FoundInDbAny(images, fileId) == TRUE

\* getFileForUser's filter on user.images: an image object has the file id
\* as its imageId or as its metadataId.
FoundInDb(images, fileId) ==
  \E i \in 1..Len(images) :
    images[i].imageId = fileId \/ images[i].metadataId = fileId

\* listObjects({Prefix: fileId, MaxKeys: 1}) finding an object: the keys are
\* v1 uuids, all of one length, so that a key has a key as its prefix only
\* when it is that key.
FoundInS3(keys, fileId) == \E k \in keys : k = fileId

\* An operation ends: it returns res or throws the error res.
Ends(name, u, fileId, res) ==
  /\ out' = [name |-> name, user |-> u, res |-> res, fileId |-> fileId]
  /\ call' = Idle

\* The operation in progress ends.
CallEnds(res) == Ends(call.name, call.user, call.fileId, res)

\* registerUser, loginUser or getUploadedImagesForUser called: the ready
\* check, the assertion on the parameters, and the first DB call.
UserCall(name, u, valid, pwOk) ==
  /\ alive /\ call = Idle /\ calls < MaxCalls
  /\ calls' = calls + 1
  /\ IF ~ManagerIsReady
       THEN /\ Ends(name, u, 0, "MANAGER_NOT_INITIALIZED")
            /\ touched' = {}
     ELSE IF ~valid
       THEN /\ Ends(name, u, 0, "INVALID_PARAMETERS")
            /\ touched' = {}
     ELSE /\ call' = [Idle EXCEPT !.name = name, !.user = u, !.pwOk = pwOk,
                        !.stage = IF name = "registerUser" THEN "insertUser"
                                  ELSE "getUser"]
          /\ touched' = {"db"}
          /\ UNCHANGED out
  /\ UNCHANGED <<users, bucket, uuids, up, streams>>
  /\ UNCHANGED <<alive, extractorVars, srvVars>>

\* collection.insert returns or throws: a username that exists violates the
\* unique index; registerUser goes on to loginUser with the same password.
InsertUserDone ==
  /\ alive /\ call.stage = "insertUser"
  /\ IF users[call.user].exists
       THEN /\ CallEnds("USERNAME_TAKEN")
            /\ UNCHANGED users
       ELSE /\ users' = [users EXCEPT ![call.user] = NewUser]
            /\ call' = [call EXCEPT !.stage = "getUser", !.pwOk = TRUE]
            /\ UNCHANGED out
  /\ UNCHANGED <<bucket, uuids, up, calls, touched, streams>>
  /\ UNCHANGED <<alive, extractorVars, srvVars>>

\* A DB call of the operation in progress fails: DB_ERROR.
DbCallFail ==
  /\ alive /\ call.stage \in {"insertUser", "getUser", "adding"}
  /\ CallEnds("DB_ERROR")
  /\ UNCHANGED <<users, bucket, uuids, up, calls, touched, streams>>
  /\ UNCHANGED <<alive, extractorVars, srvVars>>

\* collection.findOne returns: no user, or the user document, with which
\* the operation compares the password, returns the images list, or goes
\* on to listObjects.
GetUserDone ==
  /\ alive /\ call.stage = "getUser"
  /\ IF ~users[call.user].exists
       THEN /\ CallEnds("USER_NOT_FOUND")
            /\ UNCHANGED touched
     ELSE IF call.name = "getFileForUser"
       THEN /\ call' = [call EXCEPT
                          !.stage = "listing",
                          !.inDb = FoundInDb(users[call.user].images,
                                             call.fileId)]
            /\ touched' = touched \cup {"s3"}
            /\ UNCHANGED out
     ELSE IF call.name = "getUploadedImagesForUser"
       THEN /\ CallEnds("images")
            /\ UNCHANGED touched
     ELSE /\ CallEnds(IF call.pwOk THEN "jwt" ELSE "INVALID_CREDENTIALS")
          /\ UNCHANGED touched
  /\ UNCHANGED <<users, bucket, uuids, up, calls, streams>>
  /\ UNCHANGED <<alive, extractorVars, srvVars>>

\* uploadImageForUser called: the ready check, the assertions, exif parsing
\* (which gives metadata for a jpeg), the two keys, and the S3 uploads, of
\* which the second is made only when there is metadata.  An upload call
\* starts here once the uploads of the one before have settled.
UploadCall(u, valid, jpeg) ==
  /\ alive /\ call = Idle /\ calls < MaxCalls
  /\ up.img # "pending" /\ up.meta # "pending"
  /\ calls' = calls + 1
  /\ IF ~ManagerIsReady
       THEN /\ Ends("uploadImageForUser", u, 0, "MANAGER_NOT_INITIALIZED")
            /\ touched' = {}
            /\ UNCHANGED <<uuids, up>>
     ELSE IF ~valid
       THEN /\ Ends("uploadImageForUser", u, 0, "INVALID_PARAMETERS")
            /\ touched' = {}
            /\ UNCHANGED <<uuids, up>>
     ELSE LET metadataKey == IF jpeg THEN Uuid(uuids + 1) ELSE 0
              fileKey == Uuid(uuids + (IF jpeg THEN 2 ELSE 1))
          IN /\ uuids' = uuids + (IF jpeg THEN 2 ELSE 1)
             /\ call' = [Idle EXCEPT !.name = "uploadImageForUser",
                           !.user = u, !.stage = "uploading",
                           !.fileKey = fileKey, !.metadataKey = metadataKey]
             /\ up' = [img |-> "pending",
                       meta |-> IF jpeg THEN "pending" ELSE "none",
                       fileKey |-> fileKey, metadataKey |-> metadataKey]
             /\ touched' = {"s3"}
             /\ UNCHANGED out
  /\ UNCHANGED <<users, bucket, streams>>
  /\ UNCHANGED <<alive, extractorVars, srvVars>>

\* The read stream on path emits 'error', so that the image upload cannot
\* succeed: the listener logs and throws inside the emitter, where nothing
\* catches.
FileStreamError ==
  /\ alive /\ call.stage = "uploading" /\ up.img = "pending"
  /\ alive' = FALSE
  /\ up' = [up EXCEPT !.img = "failed"]
  /\ UNCHANGED <<users, bucket, uuids, call, out, calls, touched, streams>>
  /\ UNCHANGED <<extractorVars, srvVars>>

\* The key under which upload which ("img" or "meta") stores its object.
KeyOf(which) == IF which = "img" THEN up.fileKey ELSE up.metadataKey

\* An s3.upload callback gets data: the object is in the bucket.
S3UploadDone(which) ==
  /\ alive /\ up[which] = "pending"
  /\ up' = [up EXCEPT ![which] = "done"]
  /\ bucket' = bucket \cup {KeyOf(which)}
  /\ UNCHANGED <<users, uuids, call, out, calls, touched, streams>>
  /\ UNCHANGED <<alive, extractorVars, srvVars>>

\* An s3.upload callback gets an error: Promise.all rejects with the first
\* one, and the catch block throws UPLOAD_FAILED.
S3UploadFail(which) ==
  /\ alive /\ up[which] = "pending"
  /\ up' = [up EXCEPT ![which] = "failed"]
  /\ IF call.stage = "uploading"
       THEN CallEnds("UPLOAD_FAILED")
       ELSE UNCHANGED <<call, out>>
  /\ UNCHANGED <<users, bucket, uuids, calls, touched, streams>>
  /\ UNCHANGED <<alive, extractorVars, srvVars>>

\* Promise.all fulfils: addImageToUser is called, which checks that the DB
\* is ready and issues updateOne.
UploadsJoined ==
  /\ alive /\ call.stage = "uploading"
  /\ up.img = "done" /\ up.meta \in {"done", "none"}
  /\ IF ImageDbIsReady
       THEN /\ call' = [call EXCEPT !.stage = "adding"]
            /\ touched' = touched \cup {"db"}
            /\ UNCHANGED out
       ELSE /\ CallEnds("DB_NOT_INITIALIZED")
            /\ UNCHANGED touched
  /\ UNCHANGED <<users, bucket, uuids, up, calls, streams>>
  /\ UNCHANGED <<alive, extractorVars, srvVars>>

\* updateOne returns: the image object is pushed to the user's list, or no
\* document was modified and addImageToUser throws
\* new Error(this._priv.USER_NOT_FOUND), an error without a message.
AddImageDone ==
  /\ alive /\ call.stage = "adding"
  /\ IF users[call.user].exists
       THEN /\ users' = [users EXCEPT ![call.user].images =
                           Append(@, [imageId |-> call.fileKey,
                                      metadataId |-> call.metadataKey])]
            /\ Ends(call.name, call.user, call.fileKey, "uploaded")
       ELSE /\ CallEnds("Error(undefined)")
            /\ UNCHANGED users
  /\ UNCHANGED <<bucket, uuids, up, calls, touched, streams>>
  /\ UNCHANGED <<alive, extractorVars, srvVars>>

\* getFileForUser called: the ready check, the assertions, and getUser.
GetFileCall(u, fileId, valid) ==
  /\ alive /\ call = Idle /\ calls < MaxCalls
  /\ calls' = calls + 1
  /\ IF ~ManagerIsReady
       THEN /\ Ends("getFileForUser", u, fileId, "MANAGER_NOT_INITIALIZED")
            /\ touched' = {}
     ELSE IF ~valid
       THEN /\ Ends("getFileForUser", u, fileId, "INVALID_PARAMETERS")
            /\ touched' = {}
     ELSE /\ call' = [Idle EXCEPT !.name = "getFileForUser", !.user = u,
                        !.stage = "getUser", !.fileId = fileId]
          /\ touched' = {"db"}
          /\ UNCHANGED out
  /\ UNCHANGED <<users, bucket, uuids, up, streams>>
  /\ UNCHANGED <<alive, extractorVars, srvVars>>

\* The listObjects callback: an error counts as not found; the file is
\* returned as the read stream of getObject when it was found in the user's
\* list and in the bucket, and createReadStream did not throw.
ListDone(listed, opens) ==
  /\ alive /\ call.stage = "listing"
  /\ IF call.inDb /\ listed /\ FoundInS3(bucket, call.fileId)
       THEN IF opens
              THEN /\ streams' = streams \cup {<<call.user, call.fileId>>}
                   /\ CallEnds("stream")
              ELSE /\ CallEnds("FILE_NOT_FOUND")
                   /\ UNCHANGED streams
       ELSE /\ CallEnds("FILE_NOT_FOUND")
            /\ UNCHANGED streams
  /\ UNCHANGED <<users, bucket, uuids, up, calls, touched>>
  /\ UNCHANGED <<alive, extractorVars, srvVars>>

(* -------------------------------------------------------- specifications *)
\* What run r's handler, its fetch callbacks and its update can do next.
RunStep(r) ==
  \/ Trigger(r)
  \/ RequestError(r)
  \/ Response(r)
  \/ DownloadAbort(r)
  \/ DiskWriteError(r)
  \/ FileFinish(r)
  \/ CloseCallback(r)
  \/ ZipCorrupt(r)
  \/ TarDone(r)
  \/ TarFail(r)
  \/ Discover(r)
  \/ DiscoverDone(r)
  \/ DiscoverFail(r)
  \/ ParseFile(r)
  \/ MaskInsert(r)
  \/ UpsertMatch(r)
  \/ UpsertWrite(r)
  \/ UpsertError(r)
  \/ LoopNext(r)

\* The server: DB.init racing with the runs the GET / requests start.
Next ==
  \/ DbInitOk
  \/ DbInitFail
  \/ \E r \in Runs : RunStep(r)

Spec == Init /\ [][Next]_vars

\* The DB class on its own: DB.init racing with clients that call
\* insertMetadata directly.
NextDB ==
  \/ DbInitOk
  \/ DbInitFail
  \/ \E c \in Runs :
       \/ \E metadata \in Metadata \cup {Null} : CallInsert(c, metadata)
       \/ UpsertMatch(c)
       \/ UpsertWrite(c)
       \/ CallReturn(c)

InitDB == Init /\ feedUrlOk /\ feed = <<>> /\ store = <<>>

SpecDB == InitDB /\ [][NextDB]_vars

\* The MetaParser class on its own: clients that each hold one parser and
\* call parse and mask on it in any order.
NextParser ==
  \E c \in ParserClients :
    \/ \E file \in ParserFiles : ParserParse(c, file)
    \/ ParserMask(c)

InitParser == Init /\ feedUrlOk /\ feed = <<>> /\ store = <<>>

SpecParser == InitParser /\ [][NextParser]_vars

\* The image uploader: startup, direct calls on the Server and the DB, and
\* requests.
NextServer ==
  \/ ServerInit
  \/ ConnectFail
  \/ ConnectOk
  \/ IndexFail
  \/ IndexOk
  \/ ManagerInitDone
  \/ ServerInitDone
  \/ MainResume
  \/ \E path \in Paths, token \in Tokens, payload \in Bodies,
        routed \in RouterStatuses : Request(path, token, payload, routed)
  \/ CallStart
  \/ CallGetExpressApp
  \/ \E op \in DbOps : CallDbOp(op)

InitServer ==
  /\ InitExtractor /\ feedUrlOk /\ feed = <<>> /\ store = <<>>
  /\ InitImage /\ InitManager /\ mode \in Modes

SpecServer == InitServer /\ [][NextServer]_vars

\* The image uploader's Manager: its init, and its operations called one
\* after the other.
NextManager ==
  \/ ServerInit
  \/ ConnectFail
  \/ ConnectOk
  \/ IndexFail
  \/ IndexOk
  \/ ManagerInitDone
  \/ \E name \in UserOps, u \in Usernames, valid, pwOk \in BOOLEAN :
        UserCall(name, u, valid, pwOk)
  \/ InsertUserDone
  \/ DbCallFail
  \/ GetUserDone
  \/ \E u \in Usernames, valid, jpeg \in BOOLEAN : UploadCall(u, valid, jpeg)
  \/ FileStreamError
  \/ \E which \in {"img", "meta"} : S3UploadDone(which) \/ S3UploadFail(which)
  \/ UploadsJoined
  \/ AddImageDone
  \/ \E u \in Usernames, fileId \in FileIds, valid \in BOOLEAN :
        GetFileCall(u, fileId, valid)
  \/ \E listed, opens \in BOOLEAN : ListDone(listed, opens)

InitManagerSpec ==
  /\ InitExtractor /\ feedUrlOk /\ feed = <<>> /\ store = <<>>
  /\ InitImage /\ InitManager /\ mode = "dev"

SpecManager == InitManagerSpec /\ [][NextManager]_vars

(* ============================================================ properties *)
\* Stages in which a run's fetch has failed after http.get was issued.
FetchFailures ==
  {"requestFailed", "downloadFailed", "writeFailed", "zipFailed", "tarFailed"}

\* Documents of coll whose id is id.
Count(coll, id) == Cardinality({i \in 1..Len(coll) : coll[i].id = id})

\* Keyed insert-or-replace in one step: the first document with the id is
\* replaced whole, and the record is appended when there is none.
UpsertById(coll, metadata) ==
  IF \E i \in 1..Len(coll) : coll[i].id = metadata.id
    THEN LET first == CHOOSE i \in 1..Len(coll) :
                        /\ coll[i].id = metadata.id
                        /\ \A j \in 1..Len(coll) :
                             coll[j].id = metadata.id => i <= j
         IN [i \in 1..Len(coll) |-> IF i = first THEN metadata ELSE coll[i]]
    ELSE coll \o <<metadata>>

\* The store after the first k files of list were upserted one by one.
RECURSIVE Replay(_, _, _)
Replay(coll, list, k) ==
  IF k = 0 THEN coll
  ELSE UpsertById(Replay(coll, list, k - 1), Mask(Parse(list[k])))

\* The run's error has been raised: by its fetch or inside execute.
ErrorRaised(r) == fetch[r] \in FetchFailures \/ result[r].st = "rejected"

\* Nothing run r could still do is enabled: its outcome is final.
Final(r) == ~ENABLED RunStep(r)

\* C1: an error raised at any stage (fetch, discovery, parse, mask, upsert)
\* ends the run at once and execute rejects: once the run with a raised
\* error can do nothing more, it has settled as rejected, it never reports
\* {ok, n}, and a rejected run issues no further parse or upsert.
C1_ErrorAbortsAndRejects ==
  \A r \in Runs :
    /\ (ErrorRaised(r) /\ Final(r)) => result[r].st = "rejected"
    /\ ErrorRaised(r) => result[r].st # "ok"
    /\ result[r].st = "rejected" => pc[r] = "done"

\* C2: whichever fetch stage fails (download, disk write, outer container,
\* inner tape archive), downloadAndDecompress rejects: no failed fetch is
\* left with a promise that is pending for good or resolved.
C2_FetchFailureRejects ==
  \A r \in Runs :
    (fetch[r] \in FetchFailures /\ Final(r)) => promise[r] = "rejected"

\* Files discovery finds under the expansion directory.
Discovered == Recursive(Expanded(feed), "tar")

\* C3: a run in which nothing failed returns exactly {ok: true, n} with n
\* the number of discovered files, whatever the number of stored records,
\* and only once the update of every file, the last included, was applied.
C3_SuccessReturnsDiscoveredCount ==
  \A r \in Runs :
    /\ result[r].st = "ok" =>
         /\ result[r] = Ok(Len(Discovered))
         /\ fileList[r] = Discovered
         /\ done[r] = Len(Discovered)
         /\ http[r] = 200
    /\ (alive /\ Final(r) /\ pc[r] # "idle" /\ ~ErrorRaised(r)) =>
         result[r] = Ok(Len(Discovered))

\* C3 witness: a run returned n = 2 while the store holds one record.
C3_Witness ==
  \E r \in Runs : result[r] = Ok(2) /\ done[r] = 2 /\ Len(store) = 1

\* C4: a failed run rolls nothing back: while no other run has written, the
\* store after the rejection is the store the run started from with the
\* upserts of the files it had finished applied, and the rejection carries
\* no count, whether that prefix is empty or not.
C4_NoRollback ==
  \A r \in Runs :
    (result[r].st = "rejected" /\ ~foreign[r]) =>
      /\ store = Replay(base[r], fileList[r], done[r])
      /\ result[r] = Rejected(result[r].err)
      /\ http[r] = 500

\* C4 witness: a run rejected after its first upsert, which is still stored.
C4_Witness ==
  \E r \in Runs :
    /\ result[r].st = "rejected" /\ ~foreign[r]
    /\ done[r] = 1 /\ base[r] = <<>> /\ Len(store) = 1

\* C5: upsert is idempotent on id: whenever an insertMetadata call that no
\* other writer overlapped has been applied, the store holds exactly one
\* record with that id and it is the record just given, whatever the store
\* held before, and giving the same record again changes nothing.
C5_UpsertLeavesOnePerId ==
  \A c \in Runs :
    (pc[c] = "ack" /\ ~foreign[c]) =>
      /\ Count(store, cur[c].id) = 1
      /\ \E i \in 1..Len(store) : store[i] = cur[c]
      /\ UpsertById(store, cur[c]) = store

\* C6: no two stored records have the same id, also when two runs overlap.
C6_UniqueIds ==
  \A i, j \in 1..Len(store) : i # j => store[i].id # store[j].id


\* A client's call of insertMetadata with a record whose id is missing.
MissingIdCall(c) ==
  /\ pc[c] = "idle" /\ idx'[c] = idx[c] + 1
  /\ ~cur'[c].nul /\ cur'[c].id.t = "undefined"

\* C7 as stated: every call with a record whose id is missing is rejected
\* with the validation (assertion) error and writes nothing.
C7_MissingIdValidationError ==
  [][\A c \in Runs :
       MissingIdCall(c) =>
         /\ result'[c] = Rejected("AssertionError")
         /\ pc'[c] = "idle" /\ store' = store]_vars

\* C7 amended: a call with a record whose id is missing is rejected with
\* the assertion error when the DB is ready and with NOT_INITIALIZED when
\* it is not; either way no update is issued and the store is unchanged.
C7_MissingIdRejected ==
  [][\A c \in Runs :
       MissingIdCall(c) =>
         /\ result'[c] =
              Rejected(IF ready THEN "AssertionError" ELSE "NOT_INITIALIZED")
         /\ pc'[c] = "idle" /\ store' = store]_vars

\* C7 witness: a ready DB with a record stored has rejected a record
\* without id with the assertion error.
C7_Witness ==
  \E c \in Runs :
    /\ ready /\ base[c] # <<>> /\ store = base[c] /\ pc[c] = "idle"
    /\ cur[c] = Rec(Undef, "a") /\ result[c] = Rejected("AssertionError")

\* C8: a file for which mask yields null gets no upsert call and raises no
\* error: insertMetadata is never handed null and no run is rejected there.
C8_NullMaskSkipsUpsert ==
  \A r \in Runs :
    /\ cur[r] # Null
    /\ ~(result[r].st = "rejected" /\ pc[r] = "done"
         /\ idx[r] > 0 /\ parsedXml[r] = Parse(fileList[r][idx[r]])
         /\ Mask(parsedXml[r]) = Null /\ done[r] = idx[r] - 1)

\* C9: when the inner tape archive fails to decompress, execute ends up
\* rejected, the request is answered 500, and a store that was empty and
\* that no other run wrote to is still empty.
C9_Stage2FailureSurfaces ==
  \A r \in Runs :
    (fetch[r] = "tarFailed" /\ Final(r)) =>
      /\ result[r].st = "rejected"
      /\ http[r] >= 500
      /\ (base[r] = <<>> /\ ~foreign[r]) => store = <<>>

\* C10: the stages of a run never overlap: discovery and everything after
\* it happen only with the fetch complete (download, both decompressions)
\* and its promise resolved, and files are processed only from the complete
\* list discovery returned.
C10_StagesInSequence ==
  \A r \in Runs :
    /\ (pc[r] \in {"discovering", "parse", "mask", "update", "write", "ack"}
        \/ result[r].st = "ok") =>
         fetch[r] = "done" /\ promise[r] = "resolved"
    /\ pc[r] \in {"parse", "mask", "update", "write", "ack"} =>
         fileList[r] = Discovered /\ idx[r] \in 1..Len(fileList[r])
    /\ pc[r] \in {"idle", "awaitFetch", "discovering"} =>
         fileList[r] = <<>> /\ done[r] = 0 /\ cur[r] = NoCall

\* C10 witness: a run is processing its second file with its fetch done.
C10_Witness ==
  \E r \in Runs : pc[r] = "update" /\ idx[r] = 2 /\ fetch[r] = "done"

\* C11: inside a fetch, stage 1 (the outer zip) starts only on an archive
\* file whose stream has finished and that is closed by then, stage 2 (the
\* inner tar) starts only with rdf-files.tar in the expansion directory,
\* and the fetch resolves only in the step that ends stage 2, with the
\* record files extracted.
C11_FetchStagesInOrder ==
  [][\A r \in Runs :
       LET s == session[r]
       IN /\ (s # 0 /\ unzipDir[s] = <<>> /\ unzipDir'[s] # <<>>) =>
               zipFile[s] = "finished" /\ zipFile'[s] = "closed"
          /\ (fetch[r] # "untarring" /\ fetch'[r] = "untarring") =>
               zipFile'[s] = "closed" /\ unzipDir'[s] = <<TarFile>>
          /\ (promise[r] # "resolved" /\ promise'[r] = "resolved") =>
               /\ fetch[r] = "untarring" /\ unzipDir[s] = <<TarFile>>
               /\ unzipDir'[s] = Expanded(feed)]_vars

\* C11 witness: a fetch has resolved over a closed archive file with two
\* record files extracted next to the inner archive.
C11_Witness ==
  \E r \in Runs :
    /\ promise[r] = "resolved" /\ zipFile[session[r]] = "closed"
    /\ Len(feed) = 2 /\ unzipDir[session[r]] = Expanded(feed)

\* C12: a run handles one file at a time: while file i is being parsed,
\* masked or upserted, exactly the files up to i have been handed to parse
\* and the upserts of the i-1 files before it have all been applied; the
\* next parse begins only with all i upserts applied, so the run has at
\* most one document and one store write in flight.
C12_OneFileAtATime ==
  \A r \in Runs :
    /\ pc[r] = "parse" =>
         Len(parsed[r]) = idx[r] - 1 /\ done[r] = idx[r] - 1
    /\ pc[r] \in {"mask", "update", "write"} =>
         Len(parsed[r]) = idx[r] /\ done[r] = idx[r] - 1
    /\ pc[r] = "ack" => Len(parsed[r]) = idx[r] /\ done[r] = idx[r]
    /\ Len(parsed[r]) - done[r] \in {0, 1}
    /\ \A i \in 1..Len(parsed[r]) : parsed[r][i] = fileList[r][i]

\* C12 witness: a run is parsing its second file with the upsert of the
\* first one applied.
C12_Witness ==
  \E r \in Runs :
    /\ pc[r] = "parse" /\ idx[r] = 2
    /\ Len(parsed[r]) = 1 /\ done[r] = 1 /\ Len(store) = 1

\* C13: a run carries nothing over to the next but the store: when run q
\* started after every write of run r, both over the same archive and both
\* successful, q leaves the store exactly as r left it, which is the store
\* one run over the archive produces, and q returns what r returned.
C13_SecondRunChangesNothing ==
  \A r, q \in Runs :
    (r # q /\ result[r].st = "ok" /\ result[q].st = "ok" /\ ~foreign[q]) =>
      /\ base[q] = Replay(base[r], feed, Len(feed))
      /\ store = base[q]
      /\ result[q] = result[r]
      /\ fileList[q] = fileList[r]

\* C13 witness: a second run over two record files has returned on a store
\* the first run had filled.
C13_Witness ==
  \E r, q \in Runs :
    /\ r # q /\ result[r] = Ok(2) /\ result[q] = Ok(2) /\ ~foreign[q]
    /\ done[q] = 2 /\ base[q] # <<>> /\ store = base[q]

\* C14: every request that started a run gets exactly one response: the
\* {ok, n} payload with status 200 when execute resolves, and status 500
\* with a body that carries the error's message when execute rejects; a
\* run that can do nothing more has been answered.
C14_OneResponseWithMessage ==
  \A r \in Runs :
    /\ result[r].st = "rejected" =>
         http[r] = 500 /\ "message" \in body[r]
    /\ result[r].st = "ok" => http[r] = 200 /\ body[r] = Payload
    /\ (pc[r] # "idle" /\ Final(r)) => http[r] # 0

\* A client's call of mask() on a parser that holds no parsed document.
MaskWithoutDoc(c) ==
  /\ idx'[c] = idx[c] + 1 /\ pc'[c] \in {"masked", "maskThrew"}
  /\ parsedXml[c].st # "doc"

\* C15: mask() on a parser without a parsed document (parse never called,
\* parse failed, or the parsed result is null) returns null and does not
\* throw, hands exactly one 'parsed XML not found' warning to the debug
\* sink, and leaves the parser as it was.
C15_MaskWithoutDocReturnsNull ==
  [][\A c \in Runs :
       MaskWithoutDoc(c) =>
         /\ pc'[c] = "masked" /\ result'[c].st # "rejected"
         /\ cur'[c] = Null
         /\ log'[c] = Append(log[c], "PARSED_XML_NOT_FOUND")
         /\ parsedXml'[c] = parsedXml[c]]_vars

\* C15 witness: mask() has returned null with one warning on a parser whose
\* only parse() had failed, so that parsedXml was never assigned.
C15_Witness ==
  \E c \in Runs :
    /\ pc[c] = "masked" /\ parsed[c] = <<BadFile>> /\ parsedXml[c] = NoDoc
    /\ cur[c] = Null /\ log[c] = <<"PARSED_XML_NOT_FOUND">>

\* C16: every record mask() returns, and so every record a run writes to
\* the store, has an id that is an actual number: not missing and not NaN.
C16_IdsAreNumbers ==
  /\ \A r \in Runs :
       (cur[r] # NoCall /\ ~cur[r].nul) => cur[r].id.t = "num"
  /\ \A i \in 1..Len(store) : store[i].id.t = "num"

\* Entries of an expansion directory that are not *.tar files.
NonTar(dir) == SelectSeq(dir, LAMBDA f : f.ext # "tar")

\* C17: discovery returns every entry of the run's expansion directory but
\* the *.tar ones; rdf-files.tar, which stage 1 left there, is never handed
\* to parse, the files parsed are the record files in order, and a
\* successful run has parsed and upserted each of them exactly once.
C17_DiscoveryAllButTar ==
  \A r \in Runs :
    /\ (pc[r] \in {"parse", "mask", "update", "write", "ack"}
        \/ result[r].st = "ok") =>
         /\ TarFile \in {unzipDir[session[r]][i] :
                           i \in 1..Len(unzipDir[session[r]])}
         /\ fileList[r] = NonTar(unzipDir[session[r]])
         /\ fileList[r] = feed
    /\ Len(parsed[r]) <= Len(feed)
    /\ \A i \in 1..Len(parsed[r]) :
         parsed[r][i] # TarFile /\ parsed[r][i] = feed[i]
    /\ result[r].st = "ok" =>
         /\ parsed[r] = feed /\ done[r] = Len(feed)
         /\ ~foreign[r] => store = Replay(base[r], feed, Len(feed))

\* C17 witness: a run has returned after parsing and upserting both record
\* files that lay next to rdf-files.tar.
C17_Witness ==
  \E r \in Runs :
    /\ result[r].st = "ok" /\ Len(feed) = 2 /\ parsed[r] = feed
    /\ done[r] = 2 /\ unzipDir[session[r]] = <<TarFile>> \o feed

\* C18: a run over an archive that expands to no record file parses
\* nothing and writes nothing, so the store stays as the run found it, and
\* unless its fetch or its discovery fails it completes with {ok: true,
\* n: 0}.
C18_EmptyArchive ==
  feed = <<>> =>
    \A r \in Runs :
      /\ pc[r] \notin {"parse", "mask", "update", "write", "ack"}
      /\ parsed[r] = <<>> /\ cur[r] = NoCall /\ done[r] = 0
      /\ pc[r] # "idle" => store = base[r]
      /\ result[r].st = "ok" => result[r] = Ok(0) /\ http[r] = 200
      /\ (alive /\ Final(r) /\ pc[r] # "idle" /\ ~ErrorRaised(r)) =>
           result[r] = Ok(0)

\* C18 witness: a run has returned {ok: true, n: 0} over an expansion
\* directory that holds the inner archive alone, with a record in the store.
C18_Witness ==
  \E r \in Runs :
    /\ feed = <<>> /\ result[r] = Ok(0) /\ store # <<>>
    /\ unzipDir[session[r]] = <<TarFile>>

\* The database applies the update of client c's insertMetadata call.
UpsertApplied(c) == pc[c] = "write" /\ pc'[c] = "ack"

\* C19: an upsert replaces whole, it does not merge: the update writes one
\* document, which afterwards is the given record field for field, a field
\* the replaced document had and the record lacks being gone; it replaces a
\* document with that id or is appended, and every other document, those
\* with other ids included, stays as it was.  When no other writer came in
\* between and the id was stored at most once, the record is afterwards the
\* only one stored for its id.
C19_UpsertReplacesWhole ==
  [][\A c \in Runs :
       UpsertApplied(c) =>
         /\ \E i \in 1..Len(store') :
              /\ store'[i] = cur[c]
              /\ \A j \in 1..Len(store) : j # i => store'[j] = store[j]
              /\ IF i <= Len(store)
                   THEN store[i].id = cur[c].id /\ Len(store') = Len(store)
                   ELSE Len(store') = Len(store) + 1
         /\ \A j \in 1..Len(store) :
              store[j].id # cur[c].id => store'[j] = store[j]
         /\ (~foreign[c] /\ Count(store, cur[c].id) <= 1) =>
              \A j \in 1..Len(store') :
                store'[j].id = cur[c].id => store'[j] = cur[c]]_vars

\* C19 witness: a record with id 1 and no v field has replaced the stored
\* record with id 1 and v = "a", next to an untouched record with id 2.
C19_Witness ==
  \E c \in Runs :
    /\ pc[c] = "ack" /\ cur[c] = Rec(Num(1), "-")
    /\ base[c] = <<Rec(Num(1), "a"), Rec(Num(2), "a")>>
    /\ store = <<Rec(Num(1), "-"), Rec(Num(2), "a")>>

\* C20: every execute draws a session id no earlier execute drew, and its
\* archive path and expansion directory are derived from it: two runs,
\* overlapping or not, never share a path, only the run itself writes under
\* its paths, and the files it lists and parses are entries of its own
\* expansion directory.
C20_SessionsDisjoint ==
  \A r \in Runs :
    /\ pc[r] = "idle" => session[r] = 0
    /\ pc[r] # "idle" =>
         /\ session[r] \in 1..guids
         /\ wroteTo[session[r]] = {r}
         /\ zipFile[session[r]] # "absent"
         /\ \A i \in 1..Len(fileList[r]) :
              \E k \in 1..Len(unzipDir[session[r]]) :
                fileList[r][i] = unzipDir[session[r]][k]
    /\ \A q \in Runs :
         (q # r /\ pc[r] # "idle" /\ pc[q] # "idle") =>
           /\ session[r] # session[q]
           /\ ZipFilePath(session[r]) # ZipFilePath(session[q])
           /\ UnzipFolderPath(session[r]) # UnzipFolderPath(session[q])
           /\ ZipFilePath(session[r]) # UnzipFolderPath(session[q])

\* C20 witness: one run is parsing the files of its own directory while the
\* other, under another session id, is still extracting its inner archive.
C20_Witness ==
  \E r, q \in Runs :
    /\ pc[r] = "parse" /\ Len(fileList[r]) = 2 /\ fetch[q] = "untarring"
    /\ session[r] # session[q]
    /\ unzipDir[session[r]] = Expanded(feed)
    /\ unzipDir[session[q]] = <<TarFile>>

\* How far a fetch has come; a failed fetch has come to its end.
FetchRank(stage) ==
  CASE stage = "none" -> 0
    [] stage = "requesting" -> 1
    [] stage = "piping" -> 2
    [] stage = "closing" -> 3
    [] stage = "untarring" -> 4
    [] stage = "done" -> 5
    [] OTHER -> 6

\* Entries of a run's debug sink that are errors its catch block logged.
ErrorsLogged(r) ==
  Cardinality({i \in 1..Len(log[r]) : log[r][i] # "PARSED_XML_NOT_FOUND"})

\* C21: nothing is retried and no error is changed on its way up: a fetch
\* only moves forward, so that download, stage 1 and stage 2 are each
\* attempted once at most; the files handed to parse are the discovered
\* files in order, each once at most, and no more upserts are applied than
\* files were parsed; a run rejects with the very error its catch block
\* caught, which is the error of the stage that failed and is the last and
\* only error in the debug sink, and a run that did not reject has logged
\* no error.
C21_NoRetrySameError ==
  [][\A r \in Runs :
       /\ fetch'[r] # fetch[r] => FetchRank(fetch'[r]) > FetchRank(fetch[r])
       /\ parsed'[r] # parsed[r] =>
            /\ Len(parsed'[r]) = Len(parsed[r]) + 1
            /\ parsed'[r] = SubSeq(fileList[r], 1, Len(parsed'[r]))
       /\ done'[r] # done[r] =>
            done'[r] = done[r] + 1 /\ done'[r] = Len(parsed[r])
       /\ result'[r].st = "rejected" =>
            /\ result'[r] = Rejected(raised'[r])
            /\ ErrorsLogged(r)' = 1
            /\ log'[r][Len(log'[r])] = raised'[r]
            /\ raised'[r] = "InvalidUrl" => ~feedUrlOk
            /\ raised'[r] = "ParseError" =>
                 ParseThrows(parsed'[r][Len(parsed'[r])])
            /\ raised'[r] = "TypeError" =>
                 \/ MaskThrows(parsedXml'[r])
                 \/ Mask(parsedXml'[r]) = Null
            /\ raised'[r] # "AssertionError"
       /\ result'[r].st # "rejected" =>
            raised'[r] = "-" /\ ErrorsLogged(r)' = 0]_vars

\* C21 witness: a run was rejected with the parse error of its second
\* file, logged once, after one upsert.
C21_Witness ==
  \E r \in Runs :
    /\ result[r] = Rejected("ParseError") /\ raised[r] = "ParseError"
    /\ log[r] = <<"ParseError">> /\ Len(parsed[r]) = 2 /\ done[r] = 1

\* Client c's last call was a mask() that found a parsed document.
MaskedDoc(c) == pc[c] = "masked" /\ parsedXml[c].st = "doc"

\* kept is source without its falsy entries, the others in their order.
KeptOf(source, kept) ==
  LET truthy == {i \in 1..Len(source) : Truthy(source[i])}
  IN /\ Len(kept) = Cardinality(truthy)
     /\ \E at \in [1..Len(kept) -> truthy] :
          /\ \A i, j \in 1..Len(kept) : i < j => at[i] < at[j]
          /\ \A i \in 1..Len(kept) : kept[i] = source[at[i]]

\* C22: the subjects and the authors of the record mask returns are the
\* entries extracted from the document, in their order, without the missing
\* and the empty ones; they are empty when the document has no entries.
C22_FalsyEntriesRemoved ==
  \A c \in Runs :
    MaskedDoc(c) =>
      LET ebook == Content(parsedXml[c].v)
      IN /\ KeptOf(ebook.subjects, masked[c].subjects)
         /\ KeptOf(ebook.authors, masked[c].authors)
         /\ ebook.subjects = <<>> => masked[c].subjects = <<>>
         /\ ebook.authors = <<>> => masked[c].authors = <<>>

\* C22 witness: a document with missing and empty entries among its
\* subjects and authors was masked.
C22_Witness ==
  \E c \in Runs :
    /\ MaskedDoc(c) /\ parsedXml[c].v = "b"
    /\ masked[c].subjects = <<Str("Fiction"), Str("PS")>>
    /\ masked[c].authors = <<Str("Twain, Mark"), Str("Clemens, Samuel")>>

\* C23: the publication date of the record mask returns is null exactly
\* when the document has no issued-date text, the date the text stands for
\* when Date.parse reads it, and the invalid date when it does not; the
\* three are different values.
C23_DateOutcomes ==
  \A c \in Runs :
    MaskedDoc(c) =>
      LET text == Content(parsedXml[c].v).issued
          date == masked[c].publicationDate
      IN /\ date = JsNull <=> text = JsNull
         /\ date.t \in {"null", "date", "invalid-date"}
         /\ (text # JsNull /\ DateParse(text.s) # NaN) =>
              date.t = "date" /\ Num(date.n) = DateParse(text.s)
         /\ (text # JsNull /\ DateParse(text.s) = NaN) =>
              date.t = "invalid-date"

\* C23 witness: a document whose issued date cannot be read was masked.
C23_Witness ==
  \E c \in Runs :
    /\ MaskedDoc(c) /\ parsedXml[c].v = "b"
    /\ Content("b").issued = Str("soon")
    /\ masked[c].publicationDate = InvalidDate

\* The archive with one record file, that of ebooks/10.
OneRecordFeed == <<RdfFile("10", "a")>>

\* C24: a run over an archive with the record file of ebooks/10 alone, on a
\* store that was empty and that no other run wrote to meanwhile, ends with
\* one stored record, with id 10 and the properties mask extracted
\* (language 'en', the two subjects in order, no authors, one rights entry,
\* publication date 1989-08-01, a publisher), and answers {ok: true, n: 1}.
C24_OneRecordEndToEnd ==
  \A r \in Runs :
    (feed = OneRecordFeed /\ result[r].st = "ok" /\ base[r] = <<>>
       /\ ~foreign[r]) =>
      /\ store = <<Rec(Num(10), "a")>>
      /\ cur[r] = Rec(Num(10), "a")
      /\ masked[r] =
           [language |-> Str("en"),
            title |-> Str("The King James Version of the Bible"),
            subjects |-> <<Str("Bible"), Str("BS")>>,
            authors |-> <<>>,
            rights |-> <<Str("Public domain in the USA.")>>,
            publicationDate |-> Date(7152),
            publisher |-> Str("Project Gutenberg")]
      /\ result[r] = Ok(1)
      /\ http[r] = 200 /\ body[r] = Payload

\* C24 witness: such a run has answered.
C24_Witness ==
  \E r \in Runs :
    /\ feed = OneRecordFeed /\ result[r] = Ok(1) /\ base[r] = <<>>
    /\ ~foreign[r] /\ store = <<Rec(Num(10), "a")>>

\* A client's call of mask() on a parser that holds a parsed document.
MaskWithDoc(c) ==
  /\ idx'[c] = idx[c] + 1 /\ parsed'[c] = parsed[c]
  /\ parsedXml[c].st = "doc"

\* C25: mask() on a parser that holds a parsed document leaves the document
\* as it was, touches neither the files nor the store, hands nothing to the
\* debug sink, and returns a record equal to the one the call before it
\* returned when that was a mask() too.
C25_MaskNoSideEffects ==
  [][\A c \in Runs :
       MaskWithDoc(c) =>
         /\ parsedXml' = parsedXml
         /\ UNCHANGED <<store, diskVars, fileList, dbVars>>
         /\ log' = log
         /\ pc'[c] = "masked" =>
              /\ cur'[c] = Mask(parsedXml[c])
              /\ masked'[c] = MaskFields(parsedXml[c])
         /\ pc[c] = pc'[c] => (cur'[c] = cur[c] /\ masked'[c] = masked[c])]_vars

\* C25 witness: a parser that holds a document was masked twice.
C25_Witness ==
  \E c \in Runs :
    /\ pc[c] = "masked" /\ idx[c] = 3 /\ Len(parsed[c]) = 1
    /\ parsedXml[c] = Doc("1", "b") /\ cur[c] = Rec(Num(1), "b")
    /\ log[c] = <<>>

\* Every entry of directory dir is still an entry of directory after.
StillIn(dir, after) ==
  \A i \in 1..Len(dir) : \E j \in 1..Len(after) : after[j] = dir[i]

\* C26: nothing on disk is reclaimed: an archive file that exists goes on
\* existing and an expansion directory keeps every entry it has, whatever
\* step is taken; so a run that has ended, resolved or rejected, still has
\* the archive file of its session, and the expansion directory with the
\* tar file and the record files when it came to expand them.
C26_ArtifactsNeverReclaimed ==
  [][/\ \A s \in SessionIds :
          /\ zipFile[s] # "absent" => zipFile'[s] # "absent"
          /\ StillIn(unzipDir[s], unzipDir'[s])
     /\ \A r \in Runs :
          pc'[r] = "done" =>
            /\ session'[r] \in SessionIds
            /\ zipFile'[session'[r]] # "absent"
            /\ result'[r].st = "ok" =>
                 /\ zipFile'[session'[r]] = "closed"
                 /\ unzipDir'[session'[r]] = <<TarFile>> \o feed]_vars

\* C26 witness: a run that resolved and a run that was rejected have both
\* ended, and the archive files and expansion directories of both are on
\* disk.
C26_Witness ==
  \E r, q \in Runs :
    /\ pc[r] = "done" /\ result[r].st = "ok" /\ feed # <<>>
    /\ pc[q] = "done" /\ result[q].st = "rejected"
    /\ session[r] # session[q]
    /\ zipFile[session[r]] = "closed" /\ zipFile[session[q]] = "closed"
    /\ unzipDir[session[r]] = <<TarFile>> \o feed
    /\ unzipDir[session[q]] = <<TarFile>> \o feed

\* Run r calls insertMetadata with what mask() returned.
ReachesUpsert(r) ==
  /\ pc[r] = "mask" /\ pc'[r] # "mask" /\ ~MaskThrows(parsedXml[r])

\* C28: the store is written only when the DB is ready, and it stays ready
\* from then on; a run whose insertMetadata call finds the DB not ready,
\* since init has not completed or has failed, is rejected with
\* 'db has not been initialized' at that call, which writes nothing; such a
\* run has written nothing at all.
C28_NoWriteBeforeReady ==
  [][/\ store' # store => IsReady /\ ready /\ dbInit = "ready"
     /\ ready => ready'
     /\ ready' <=> dbInit' = "ready"
     /\ \A r \in Runs :
          /\ (ReachesUpsert(r) /\ ~ready) =>
               /\ pc'[r] = "done"
               /\ result'[r] = Rejected("NOT_INITIALIZED")
               /\ raised'[r] = "NOT_INITIALIZED"
               /\ store' = store /\ done'[r] = done[r]
          /\ (ReachesUpsert(r) /\ ready) =>
               result'[r] # Rejected("NOT_INITIALIZED")
          /\ result'[r] = Rejected("NOT_INITIALIZED") =>
               done'[r] = 0 /\ Len(parsed'[r]) = 1]_vars

\* C28 witness: the connection has failed and the server went on; one run
\* was rejected at its first upsert before that and one after, and the
\* store is as it was.
C28_Witness ==
  /\ alive /\ dbInit = "failed" /\ ~ready
  /\ \A r \in Runs :
       /\ result[r] = Rejected("NOT_INITIALIZED") /\ cur[r] # NoCall
       /\ ~cur[r].nul /\ done[r] = 0 /\ store = base[r]

\* The latest request was to a path the JWT check covers and carried no
\* valid token.
Unauthenticated ==
  req # NoReq /\ req.path \notin JwtExcluded /\ req.token # "valid"

\* C27 as stated: a request to a path that is not JWT-excluded, without a
\* valid HS256 token signed with the secret, is answered 401 and reaches
\* neither the router nor the manager.
C27_UnauthenticatedGets401 ==
  Unauthenticated => req.status = 401 /\ ~req.reached

\* C27 as amended: such a request reaches neither the router nor the
\* manager; it is answered 401, or 400 when its body does not parse, since
\* the body parsers come before the JWT check.
C27_UnauthenticatedNeverRouted ==
  Unauthenticated =>
    /\ ~req.reached
    /\ req.status = IF req.body = "malformed" THEN 400 ELSE 401

\* C27 witness: a request with a forged token to a covered path was
\* answered 401.
C27_Witness ==
  /\ req.path = "/images" /\ req.token = "forged" /\ req.body = "ok"
  /\ req.status = 401 /\ ~req.reached

\* No Server.init call so far has resolved.
NoInitResolved == \A i \in 1..Len(settled) : settled[i] = "rejected"

\* C29: the image uploader's DB is ready only when the connection and the
\* index creation have both succeeded: when init rejected, isReady stays
\* false and a DB operation throws NOT_INITIALIZED instead of going on.
C29_ReadyOnlyAfterIndexes ==
  /\ dbReady => indexed
  /\ (api.op \in DbOps /\ api.out = "issued") => indexed
  /\ (settled # <<>> /\ NoInitResolved) => ~dbReady

\* C30: the Server is ready only once an init call has run to its end, with
\* the Manager ready; it is not ready while every init call so far has
\* rejected; start() and getExpressApp() called while it is not ready
\* throw, and start() does not listen then; the HTTP server listens only
\* when the Server is ready.
C30_ReadyOnlyAfterInit ==
  [][/\ srvReady' => (mgrReady' /\ settled' # <<>> /\ ~NoInitResolved')
     /\ srvReady => srvReady'
     /\ listening' => srvReady'
     /\ (api' # api /\ api'.op \in {"start", "getExpressApp"}
           /\ ~srvReady) =>
          api'.out = "threw" /\ listening' = listening]_vars

\* C30 witness: init has rejected, and a start() called after that threw
\* and left the server not listening.
C30_Witness ==
  /\ settled = <<"rejected">> /\ main = "failed" /\ ~srvReady
  /\ api = [op |-> "start", out |-> "threw"] /\ ~listening

\* An upload of the upload call in progress fails in this step.
UploadFails ==
  /\ call.stage = "uploading"
  /\ \E which \in {"img", "meta"} : up[which] = "pending" /\ up'[which] = "failed"

\* An image object is added to a user's images list in this step.
ImageAdded == \E u \in Usernames : users'[u].images # users[u].images

\* C31: uploadImageForUser adds the image object to the user's list only
\* once the image upload, and the metadata upload when there is metadata,
\* have succeeded and their objects are in the bucket; when an upload
\* fails, the call throws UPLOAD_FAILED and no images list changes.
C31_AddedOnlyAfterUploads ==
  [][/\ ImageAdded =>
          /\ up.img = "done" /\ up.fileKey \in bucket
          /\ up.meta \in {"done", "none"}
          /\ up.meta = "done" => up.metadataKey \in bucket
     /\ UploadFails =>
          /\ out'.name = "uploadImageForUser" /\ out'.res = "UPLOAD_FAILED"
          /\ call' = Idle
          /\ ~ImageAdded]_vars

\* Keys in the images list of user u, as image or as metadata.
OwnKeys(u) ==
  {users[u].images[i].imageId : i \in 1..Len(users[u].images)}
    \cup {users[u].images[i].metadataId : i \in 1..Len(users[u].images)}

\* A getFileForUser call ends in this step.
GetFileEnds == call.name = "getFileForUser" /\ call' = Idle

\* C32: getFileForUser returns a read stream only for a file id that is in
\* the images list of the user who asks, as imageId or metadataId, and in
\* the bucket; once it has the user's document, it throws FILE_NOT_FOUND
\* for any other file id, one of another user's list included; and a call
\* that returns no stream has opened none.
C32_OnlyOwnFiles ==
  [][/\ GetFileEnds =>
          /\ out'.res = "stream" =>
               /\ call.fileId \in OwnKeys(call.user)
               /\ call.fileId \in bucket
               /\ streams' = streams \cup {<<call.user, call.fileId>>}
          /\ out'.res # "stream" => streams' = streams
          /\ (call.stage = "listing"
                /\ ~(call.fileId \in OwnKeys(call.user)
                       /\ call.fileId \in bucket)) =>
               out'.res = "FILE_NOT_FOUND"
     /\ streams' # streams => GetFileEnds
     /\ \A h \in streams' : h[2] \in OwnKeys(h[1])' /\ h[2] \in bucket']_vars

\* C32 witness: a user asked for a file that is in the bucket and in another
\* user's list, got FILE_NOT_FOUND, and no stream was opened.
C32_Witness ==
  \E u, v \in Usernames :
    /\ u # v /\ out.name = "getFileForUser" /\ out.user = u
    /\ out.res = "FILE_NOT_FOUND"
    /\ out.fileId \in OwnKeys(v) /\ out.fileId \in bucket
    /\ out.fileId \notin OwnKeys(u)
    /\ streams = {}

\* The public operations of the Manager.
ManagerOps == UserOps \cup {"uploadImageForUser", "getFileForUser"}

\* C33: an operation of the Manager called while Manager.init has not
\* completed, be it pending or failed, throws the 'manager has not been
\* initialized' error at once, with no access to the DB or to S3: the user
\* documents, the bucket, the uploads and the streams stay as they were;
\* nothing is accessed, and nothing is in progress, unless the Manager is
\* ready.
C33_NotReadyThrows ==
  [][/\ (calls' = calls + 1 /\ ~mgrReady) =>
          /\ out'.name \in ManagerOps
          /\ out'.res = "MANAGER_NOT_INITIALIZED"
          /\ call' = Idle
          /\ touched' = {}
          /\ UNCHANGED <<users, bucket, uuids, up, streams>>
     /\ (touched' # {} \/ call' # Idle) => mgrReady'
     /\ ~mgrReady' =>
          users' = users /\ bucket' = {} /\ streams' = {} /\ uuids' = 0]_vars

\* C33 witness: DB.init was rejected by createIndexes, the DB calls itself
\* ready and the Manager does not; an upload called then threw, and nothing
\* was accessed.
C33_Witness ==
  /\ connect = "rejected" /\ dbReady /\ ~mgrReady
  /\ out.name = "uploadImageForUser"
  /\ out.res = "MANAGER_NOT_INITIALIZED"
  /\ calls = 1 /\ touched = {} /\ bucket = {} /\ uuids = 0

====
